---- MODULE Spec2Model ----
(***************************************************************************)
(* The WhatsApp session services of the repository:                        *)
(*   "service"  src/unnamed/part_000  multi-profile service, Init returns  *)
(*              at once and initialization goes on in the background       *)
(*   "guide"    src/index.js          the service of the set-up guide,     *)
(*              Init awaits the initialization                             *)
(*   "sender"   src/unnamed/part_001  single-client service with /send     *)
(* One of them is deployed; `variant` says which.  The whatsapp-web.js     *)
(* client and the webhook sink are the environment: a client emits its     *)
(* events and settles its promises in any order and with any outcome.      *)
(***************************************************************************)
EXTENDS Integers, Sequences, FiniteSets, TLC

\* ---------------------------------------------------------------- bounds
\* Size of a run: Client objects constructed, plus webhook POSTs issued, plus
\* requests suspended at an await
MaxLoad == 3

\* ---------------------------------------------------------------- values
Variants == {"service", "guide", "sender"}
Profiles == {"p1", "p2"}
Missing  == ""                      \* a field absent from the request body
Users    == {"u1"}
NoHandle == 0                       \* clients.get(profileId) === undefined

NoResponse == [op |-> "none", code |-> 0, status |-> "", success |-> "absent"]

VARIABLES
    variant,     \* which service runs
    webhookUrl,  \* WEBHOOK_URL is set
    clients,     \* the Map `clients`: profileId -> handle (NoHandle: no entry)
    handles,     \* every Client constructed so far, in order of construction
    inits,       \* guide: Init requests suspended at an await
    issued,      \* number of webhook POSTs fetch was called for so far
    outbox,      \* webhook POSTs issued and not settled yet
    sink,        \* webhook POSTs in the order they reached the sink
    unhandled,   \* a webhook POST rejected and nothing caught the rejection
    resp,        \* the last HTTP response sent
    sender       \* sender: the global `client` and the last dispatch

vars == <<variant, webhookUrl, clients, handles, inits, issued, outbox, sink,
          unhandled, resp, sender>>


Handles == 1..Len(handles)

\* destroy() calls of Disconnect requests and of guide Init requests that
\* have not settled yet
PendingCount ==
    LET RECURSIVE Sum(_)
        Sum(n) == IF n = 0 THEN 0 ELSE handles[n].destroys + Sum(n - 1)
    IN  Sum(Len(handles)) + Cardinality(inits)

Load == Len(handles) + issued + PendingCount

Init ==
    /\ variant \in Variants
    /\ webhookUrl \in BOOLEAN
    /\ (variant = "sender") => ~webhookUrl
    /\ clients = [p \in Profiles |-> NoHandle]
    /\ handles = <<>>
    /\ inits = {}
    /\ issued = 0
    /\ outbox = {}
    /\ sink = <<>>
    /\ unhandled = FALSE
    /\ resp = NoResponse
    /\ sender = [client |-> (variant = "sender"), st |-> "pending",
                 dispatched |-> <<>>, atState |-> "none"]

\* new Client({...}) with its handlers attached and initialize() called on
\* it.  usePairing only selects the arguments of initialize() and a later
\* requestPairingCode call; the services keep no trace of it.
\* st is what the collaborator can still emit for the handle: "pending" is
\* every state before `ready` (initializing, awaiting a QR scan or a pairing
\* code), then "connected" or "auth_failed"; "closed" is a handle that was
\* destroyed or has emitted `disconnected`.  init is the promise of
\* initialize(), destroys the destroy() calls of Disconnect not settled yet.
NewClient(p, usePairing) ==
    [profile |-> p, st |-> "pending", init |-> "pending", destroys |-> 0]

\* The body's `success` field: the service and the sender write success: true
\* or success: false into every answer of these routes, the guide writes
\* success: true on 200 and answers an error with {error: ...} alone.
Respond(op, code, status) ==
    resp' = [op |-> op, code |-> code, status |-> status,
             success |-> IF code = 200 THEN "true"
                         ELSE IF variant = "guide" THEN "absent"
                         ELSE "false"]

\* ------------------------------------------------------- service: Init
\* InitService without its `clients.has(profileId)` early return
InitServiceNoExistingCheck(p, u, usePairing) ==
    /\ variant = "service"
    /\ IF p = Missing \/ u = Missing
       THEN /\ Respond("init", 400, "")
            /\ UNCHANGED <<clients, handles>>
       ELSE /\ Load < MaxLoad
            /\ handles' = Append(handles, NewClient(p, usePairing))
            /\ clients' = [clients EXCEPT ![p] = Len(handles) + 1]
            /\ Respond("init", 200, "initializing")
    /\ UNCHANGED <<variant, webhookUrl, inits, issued, outbox, sink,
                   unhandled, sender>>

\* InitService without its `!profileId || !userId` early return
InitServiceNoValidation(p, u, usePairing) ==
    /\ variant = "service"
    /\ IF p # Missing /\ clients[p] # NoHandle
       THEN /\ Respond("init", 200, "existing")
            /\ UNCHANGED <<clients, handles>>
       ELSE /\ Load < MaxLoad
            /\ handles' = Append(handles, NewClient(p, usePairing))
            /\ clients' = IF p = Missing THEN clients
                          ELSE [clients EXCEPT ![p] = Len(handles) + 1]
            /\ Respond("init", 200, "initializing")
    /\ UNCHANGED <<variant, webhookUrl, inits, issued, outbox, sink,
                   unhandled, sender>>

InitService(p, u, usePairing) ==
    /\ variant = "service"
    /\ IF p = Missing \/ u = Missing
       THEN /\ Respond("init", 400, "")
            /\ UNCHANGED <<clients, handles>>
       ELSE IF clients[p] # NoHandle
       THEN /\ Respond("init", 200, "existing")
            /\ UNCHANGED <<clients, handles>>
       ELSE /\ Load < MaxLoad
            /\ handles' = Append(handles, NewClient(p, usePairing))
            /\ clients' = [clients EXCEPT ![p] = Len(handles) + 1]
            /\ Respond("init", 200, "initializing")
    /\ UNCHANGED <<variant, webhookUrl, inits, issued, outbox, sink,
                   unhandled, sender>>

\* ---------------------------------- service: client.initialize() settles
\* `client.initialize()` resolved; with usePairing the `.then` callback calls
\* client.requestPairingCode and drops the promise it returns, so neither
\* outcome of that request reaches the service.
InitializeResolved(h) ==
    /\ variant = "service"
    /\ handles[h].init = "pending"
    /\ handles' = [handles EXCEPT ![h].init = "done"]
    /\ UNCHANGED <<variant, webhookUrl, clients, inits, issued, outbox, sink,
                   unhandled, resp, sender>>

\* InitializeRejected answering the rejection as a failed Init
InitializeRejectedAnswers(h) ==
    /\ variant = "service"
    /\ handles[h].init = "pending"
    /\ handles' = [handles EXCEPT ![h].init = "done"]
    /\ Respond("init", 500, "")
    /\ UNCHANGED <<variant, webhookUrl, clients, inits, issued, outbox, sink,
                   unhandled, sender>>

\* `client.initialize()` rejected: no handler is attached to the promise and
\* the request that started it was answered long ago.
InitializeRejected(h) ==
    /\ variant = "service"
    /\ handles[h].init = "pending"
    /\ handles' = [handles EXCEPT ![h].init = "done"]
    /\ UNCHANGED <<variant, webhookUrl, clients, inits, issued, outbox, sink,
                   unhandled, resp, sender>>

\* ------------------------------------------------ lifecycle event handlers
\* Forward holding a notification back until the earlier POSTs have settled
ForwardAfterPending(h, event) ==
    /\ outbox = {}
    /\ IF webhookUrl
       THEN /\ Load < MaxLoad
            /\ issued' = issued + 1
            /\ outbox' = outbox \cup {[n |-> issued + 1,
                                        profile |-> handles[h].profile,
                                        event |-> event]}
       ELSE UNCHANGED <<issued, outbox>>

\* `if (WEBHOOK_URL) await fetch(WEBHOOK_URL, {... body ...})`: fetch is called
\* in the handler's synchronous part, so POSTs are issued in the order of the
\* events; without WEBHOOK_URL the handler only writes to the console.
Forward(h, event) ==
    IF webhookUrl
    THEN /\ Load < MaxLoad
         /\ issued' = issued + 1
         /\ outbox' = outbox \cup {[n |-> issued + 1,
                                     profile |-> handles[h].profile,
                                     event |-> event]}
    ELSE UNCHANGED <<issued, outbox>>

OnQr(h) ==
    /\ variant \in {"service", "guide"}
    /\ handles[h].st = "pending"
    /\ Forward(h, "qr_updated")
    /\ UNCHANGED <<variant, webhookUrl, clients, handles, inits, sink,
                   unhandled, resp, sender>>

\* Only the service listens to 'code'.
OnCode(h) ==
    /\ variant = "service"
    /\ handles[h].st = "pending"
    /\ Forward(h, "pairing_code")
    /\ UNCHANGED <<variant, webhookUrl, clients, handles, inits, sink,
                   unhandled, resp, sender>>

OnReady(h) ==
    /\ variant \in {"service", "guide"}
    /\ handles[h].st = "pending"
    /\ Forward(h, "connected")
    /\ handles' = [handles EXCEPT ![h].st = "connected"]
    /\ UNCHANGED <<variant, webhookUrl, clients, inits, sink, unhandled, resp,
                   sender>>

\* OnAuthFailure dropping the registry entry as OnDisconnected does
OnAuthFailureDeletes(h) ==
    /\ variant \in {"service", "guide"}
    /\ handles[h].st = "pending"
    /\ clients' = [clients EXCEPT ![handles[h].profile] = NoHandle]
    /\ Forward(h, "auth_failure")
    /\ handles' = [handles EXCEPT ![h].st = "auth_failed"]
    /\ UNCHANGED <<variant, webhookUrl, inits, sink, unhandled, resp, sender>>

OnAuthFailure(h) ==
    /\ variant \in {"service", "guide"}
    /\ handles[h].st = "pending"
    /\ Forward(h, "auth_failure")
    /\ handles' = [handles EXCEPT ![h].st = "auth_failed"]
    /\ UNCHANGED <<variant, webhookUrl, clients, inits, sink, unhandled, resp,
                   sender>>

\* clients.delete(profileId) comes before the POST, and removes whatever
\* handle the profile maps to.
OnDisconnected(h) ==
    /\ variant \in {"service", "guide"}
    /\ handles[h].st # "closed"
    /\ clients' = [clients EXCEPT ![handles[h].profile] = NoHandle]
    /\ Forward(h, "disconnected")
    /\ handles' = [handles EXCEPT ![h].st = "closed"]
    /\ UNCHANGED <<variant, webhookUrl, inits, sink, unhandled, resp, sender>>

\* ------------------------------------------------------- webhook deliveries
\* fetch resolved: the POST reached the sink.  POSTs are independent HTTP
\* requests, so they settle in any order.
WebhookDelivered(i) ==
    /\ variant \in {"service", "guide"}
    /\ i \in outbox
    /\ outbox' = outbox \ {i}
    /\ sink' = Append(sink, i)
    /\ UNCHANGED <<variant, webhookUrl, clients, handles, inits, issued,
                   unhandled, resp, sender>>

\* WebhookFailedService posting the notification again after the failure
WebhookFailedServiceRetries(i) ==
    /\ variant = "service"
    /\ i \in outbox
    /\ Load < MaxLoad
    /\ issued' = issued + 1
    /\ outbox' = (outbox \ {i}) \cup {[i EXCEPT !.n = issued + 1]}
    /\ UNCHANGED <<variant, webhookUrl, clients, handles, inits, sink,
                   unhandled, resp, sender>>

\* fetch rejected in the service: `.catch(console.error)` swallows it.
WebhookFailedService(i) ==
    /\ variant = "service"
    /\ i \in outbox
    /\ outbox' = outbox \ {i}
    /\ UNCHANGED <<variant, webhookUrl, clients, handles, inits, issued, sink,
                   unhandled, resp, sender>>

\* fetch rejected in the guide: the awaited fetch has no catch, so the async
\* handler's promise rejects and nothing handles it.
WebhookFailedGuide(i) ==
    /\ variant = "guide"
    /\ i \in outbox
    /\ outbox' = outbox \ {i}
    /\ unhandled' = TRUE
    /\ UNCHANGED <<variant, webhookUrl, clients, handles, inits, issued, sink,
                   resp, sender>>

\* -------------------------------------------------------------- Disconnect
\* POST /api/disconnect up to `await client.destroy()`.
DisconnectService(p) ==
    /\ variant = "service"
    /\ IF p = Missing \/ clients[p] = NoHandle
       THEN /\ Respond("disconnect", 200, "")
            /\ UNCHANGED handles
       ELSE /\ Load < MaxLoad
            /\ handles' = [handles EXCEPT ![clients[p]].destroys = @ + 1]
            /\ UNCHANGED resp
    /\ UNCHANGED <<variant, webhookUrl, clients, inits, issued, outbox, sink,
                   unhandled, sender>>

DisconnectGuide(p) ==
    /\ variant = "guide"
    /\ IF p = Missing
       THEN /\ Respond("disconnect", 400, "")
            /\ UNCHANGED handles
       ELSE IF clients[p] = NoHandle
       THEN /\ Respond("disconnect", 200, "")
            /\ UNCHANGED handles
       ELSE /\ Load < MaxLoad
            /\ handles' = [handles EXCEPT ![clients[p]].destroys = @ + 1]
            /\ UNCHANGED resp
    /\ UNCHANGED <<variant, webhookUrl, clients, inits, issued, outbox, sink,
                   unhandled, sender>>

\* The rest of the handler once destroy() has settled: on success
\* clients.delete(profileId) and {success: true}; a rejection jumps to the
\* catch block, which answers 500 and deletes nothing.
DisconnectResumed(h, destroyOk) ==
    /\ variant \in {"service", "guide"}
    /\ handles[h].destroys > 0
    /\ IF destroyOk
       THEN /\ handles' = [handles EXCEPT ![h].destroys = @ - 1,
                                          ![h].st = "closed"]
            /\ clients' = [clients EXCEPT ![handles[h].profile] = NoHandle]
            /\ Respond("disconnect", 200, "")
       ELSE /\ handles' = [handles EXCEPT ![h].destroys = @ - 1]
            /\ UNCHANGED clients
            /\ Respond("disconnect", 500, "")
    /\ UNCHANGED <<variant, webhookUrl, inits, issued, outbox, sink,
                   unhandled, sender>>

\* --------------------------------------------------------- guide: Init
\* POST /api/init of the guide up to the first await of initializeClient:
\* `await existingClient.destroy()` when the profile has a client, else
\* `await client.initialize()` on a new client.
InitGuide(p, u, usePairing) ==
    /\ variant = "guide"
    /\ IF p = Missing \/ u = Missing
       THEN /\ Respond("init", 400, "")
            /\ UNCHANGED <<handles, inits>>
       ELSE IF clients[p] # NoHandle
       THEN /\ Load < MaxLoad
            /\ inits' = inits \cup {[profile |-> p, pairing |-> usePairing,
                                     stage |-> "cleanup", h |-> clients[p]]}
            /\ UNCHANGED <<handles, resp>>
       ELSE /\ Load + 1 < MaxLoad
            /\ handles' = Append(handles, NewClient(p, usePairing))
            /\ inits' = inits \cup {[profile |-> p, pairing |-> usePairing,
                                     stage |-> "initialize",
                                     h |-> Len(handles) + 1]}
            /\ UNCHANGED resp
    /\ UNCHANGED <<variant, webhookUrl, clients, issued, outbox, sink,
                   unhandled, sender>>

\* existingClient.destroy() settled: clients.delete, new Client, then
\* `await client.initialize()`; a rejection leaves through the catch of the
\* route with 500.
InitGuideCleaned(r, destroyOk) ==
    /\ variant = "guide"
    /\ r \in inits
    /\ r.stage = "cleanup"
    /\ IF destroyOk
       THEN /\ Load < MaxLoad
            /\ clients' = [clients EXCEPT ![r.profile] = NoHandle]
            /\ handles' = Append([handles EXCEPT ![r.h].st = "closed"],
                                 NewClient(r.profile, r.pairing))
            /\ inits' = (inits \ {r}) \cup
                            {[r EXCEPT !.stage = "initialize",
                                       !.h = Len(handles) + 1]}
            /\ UNCHANGED resp
       ELSE /\ inits' = inits \ {r}
            /\ Respond("init", 500, "")
            /\ UNCHANGED <<clients, handles>>
    /\ UNCHANGED <<variant, webhookUrl, issued, outbox, sink, unhandled,
                   sender>>

\* client.initialize() settled: with usePairing `await client.getPairingCode()`
\* inside its own try/catch, else clients.set and the answer; a rejection
\* leaves through the catch of the route with 500 and stores nothing.
InitGuideInitialized(r, initOk) ==
    /\ variant = "guide"
    /\ r \in inits
    /\ r.stage = "initialize"
    /\ handles' = [handles EXCEPT ![r.h].init = "done"]
    /\ IF ~initOk
       THEN /\ inits' = inits \ {r}
            /\ Respond("init", 500, "")
            /\ UNCHANGED clients
       ELSE IF r.pairing
       THEN /\ inits' = (inits \ {r}) \cup {[r EXCEPT !.stage = "pairing"]}
            /\ UNCHANGED <<clients, resp>>
       ELSE /\ inits' = inits \ {r}
            /\ clients' = [clients EXCEPT ![r.profile] = r.h]
            /\ Respond("init", 200, "")
    /\ UNCHANGED <<variant, webhookUrl, issued, outbox, sink, unhandled,
                   sender>>

\* getPairingCode() settled, either way: the inner catch only logs.
InitGuidePaired(r) ==
    /\ variant = "guide"
    /\ r \in inits
    /\ r.stage = "pairing"
    /\ inits' = inits \ {r}
    /\ clients' = [clients EXCEPT ![r.profile] = r.h]
    /\ Respond("init", 200, "")
    /\ UNCHANGED <<variant, webhookUrl, handles, issued, outbox, sink,
                   unhandled, sender>>

\* ------------------------------------------------------------------ sender
Suffix == <<"@", "c", ".", "u", "s">>

\* String.prototype.includes
Includes(s, t) ==
    \E i \in 0..(Len(s) - Len(t)) : SubSeq(s, i + 1, i + Len(t)) = t

\* FormatNumber appending the suffix whatever the number contains
FormatNumberAlways(number) == number \o Suffix

\* number.includes("@c.us") ? number : number + "@c.us"
FormatNumber(number) ==
    IF Includes(number, Suffix) THEN number ELSE number \o Suffix

\* Values of req.body.number: every string made of up to three of these
\* pieces, so with the suffix nowhere, at the end, in the middle, twice, cut
\* short, and put together from two pieces
Pieces == { <<>>, <<"1">>, Suffix, <<"@", "c">>, <<".", "u", "s">> }

Recipients == { a \o b \o c : a, b, c \in Pieces }

\* The events of the single global client; the handlers only log.
SenderEvent(event) ==
    /\ variant = "sender"
    /\ sender.st = "pending"
    /\ event \in {"qr", "ready", "auth_failure"}
    /\ sender' = [sender EXCEPT !.st = CASE event = "qr" -> "pending"
                                         [] event = "ready" -> "connected"
                                         [] OTHER -> "auth_failed"]
    /\ UNCHANGED <<variant, webhookUrl, clients, handles, inits, issued,
                   outbox, sink, unhandled, resp>>

\* POST /send: the only guard is `if (!client)`, and startWhatsApp() assigned
\* `client` before the server listens.  number === undefined makes
\* number.includes throw inside the try.
Send(number, hasNumber, sendOk) ==
    /\ variant = "sender"
    /\ IF ~sender.client
       THEN /\ Respond("send", 500, "Client not ready")
            /\ UNCHANGED sender
       ELSE IF ~hasNumber
       THEN /\ Respond("send", 500, "error")
            /\ UNCHANGED sender
       ELSE /\ sender' = [sender EXCEPT !.dispatched = FormatNumber(number),
                                        !.atState = sender.st]
            /\ IF sendOk THEN Respond("send", 200, "")
                         ELSE Respond("send", 500, "error")
    /\ UNCHANGED <<variant, webhookUrl, clients, handles, inits, issued,
                   outbox, sink, unhandled>>

\* ------------------------------------------------------- Status, Health
\* GET /api/status/:profileId answers connected = (clients.get(profileId)
\* is truthy)
StatusConnected(p) == clients[p] # NoHandle

StatusBody(p) ==
    [op |-> "status", code |-> 200, status |-> "", success |-> "absent",
     connected |-> StatusConnected(p)]

\* GET /api/status/:profileId of the service: {connected, profileId}
StatusService(p) ==
    /\ variant = "service"
    /\ resp' = StatusBody(p)
    /\ UNCHANGED <<variant, webhookUrl, clients, handles, inits, issued,
                   outbox, sink, unhandled, sender>>

\* GET /api/status/:profileId of the guide: {connected, state}, where state
\* is the promise client.getState() returns, which nothing awaits; when the
\* collaborator rejects it (its page is gone) the rejection is unhandled.
StatusGuide(p, stateOk) ==
    /\ variant = "guide"
    /\ resp' = StatusBody(p)
    /\ unhandled' = (unhandled \/ (clients[p] # NoHandle /\ ~stateOk))
    /\ UNCHANGED <<variant, webhookUrl, clients, handles, inits, issued,
                   outbox, sink, sender>>

\* ActiveClients counting the clients that were constructed and are neither
\* destroyed nor disconnected
ActiveClientsLive ==
    Cardinality({h \in Handles : handles[h].st # "closed"})

\* clients.size
ActiveClients == Cardinality({p \in Profiles : clients[p] # NoHandle})

\* GET /health: {status: 'healthy', activeClients: clients.size}
Health ==
    /\ variant \in {"service", "guide"}
    /\ resp' = [op |-> "health", code |-> 200, status |-> "healthy",
                success |-> "absent", activeClients |-> ActiveClients]
    /\ UNCHANGED <<variant, webhookUrl, clients, handles, inits, issued,
                   outbox, sink, unhandled, sender>>

\* ---------------------------------------------------------- specifications
ServiceRequests ==
    \/ \E p \in Profiles \cup {Missing}, u \in Users \cup {Missing},
          b \in BOOLEAN : InitService(p, u, b)
    \/ \E h \in Handles : InitializeResolved(h)
    \/ \E h \in Handles : InitializeRejected(h)
    \/ \E h \in Handles : OnCode(h)
    \/ \E i \in outbox : WebhookFailedService(i)
    \/ \E p \in Profiles \cup {Missing} : DisconnectService(p)
    \/ \E p \in Profiles : StatusService(p)

GuideRequests ==
    \/ \E p \in Profiles \cup {Missing}, u \in Users \cup {Missing},
          b \in BOOLEAN : InitGuide(p, u, b)
    \/ \E r \in inits, ok \in BOOLEAN : InitGuideCleaned(r, ok)
    \/ \E r \in inits, ok \in BOOLEAN : InitGuideInitialized(r, ok)
    \/ \E r \in inits : InitGuidePaired(r)
    \/ \E i \in outbox : WebhookFailedGuide(i)
    \/ \E p \in Profiles \cup {Missing} : DisconnectGuide(p)
    \/ \E p \in Profiles, ok \in BOOLEAN : StatusGuide(p, ok)

\* What the service and the guide have in common
Shared ==
    \/ \E h \in Handles : OnQr(h)
    \/ \E h \in Handles : OnReady(h)
    \/ \E h \in Handles : OnAuthFailure(h)
    \/ \E h \in Handles : OnDisconnected(h)
    \/ \E i \in outbox : WebhookDelivered(i)
    \/ \E h \in Handles, ok \in BOOLEAN : DisconnectResumed(h, ok)
    \/ Health

SenderRequests ==
    \/ \E e \in {"qr", "ready", "auth_failure"} : SenderEvent(e)
    \/ \E n \in Recipients, has \in BOOLEAN, ok \in BOOLEAN : Send(n, has, ok)

Next == ServiceRequests \/ GuideRequests \/ Shared \/ SenderRequests

\* Whichever service is deployed
Spec == Init /\ [][Next]_vars

\* The service of part_000 alone
ServiceDeployed == Init /\ variant = "service"

NextService == ServiceRequests \/ Shared

SpecService == ServiceDeployed /\ [][NextService]_vars

\* The service of the set-up guide alone
GuideDeployed == Init /\ variant = "guide"

NextGuide == GuideRequests \/ Shared

SpecGuide == GuideDeployed /\ [][NextGuide]_vars

\* ================================================================== claims
\* A handle that was created and has neither been destroyed nor emitted
\* `disconnected`
Live(h) == handles[h].st # "closed"

LiveHandles(p) == {h \in Handles : handles[h].profile = p /\ Live(h)}

\* C1: for every profileId, at any time, at most one handle that was created
\* and not yet destroyed/disconnected exists.
C1_AtMostOneLiveHandle ==
    \A p \in Profiles : Cardinality(LiveHandles(p)) <= 1

\* --------------------------------------------------------------------- C2
Existing ==
    [op |-> "init", code |-> 200, status |-> "existing", success |-> "true"]

NoSideEffect ==
    UNCHANGED <<clients, handles, inits, issued, outbox, sink, unhandled>>

\* C2 (as amended): in the service of part_000 an Init for a profile the
\* registry already maps answers `existing` and changes nothing: same
\* registry entry, no handle constructed, initialized or destroyed, no POST
\* issued.
C2_ExistingInitService ==
    [][\A p \in Profiles :
         (clients[p] # NoHandle
            /\ \E u \in Users, b \in BOOLEAN : InitService(p, u, b))
         => (resp' = Existing /\ NoSideEffect)]_vars

\* C2 (as stated): the same of every Init, the guide's included.
C2_ExistingInit ==
    [][\A p \in Profiles :
         (clients[p] # NoHandle
            /\ \E u \in Users, b \in BOOLEAN :
                  InitService(p, u, b) \/ InitGuide(p, u, b))
         => (resp' = Existing /\ NoSideEffect)]_vars

\* The service has answered `existing` for a profile it holds.
C2_Witness ==
    /\ variant = "service"
    /\ resp = Existing
    /\ \E p \in Profiles : clients[p] # NoHandle

\* --------------------------------------------------------------------- C3
\* The step in which an Init for p answers success
InitSucceeds(p) ==
    \/ \E u \in Users, b \in BOOLEAN : InitService(p, u, b)
    \/ \E r \in inits :
          /\ r.profile = p
          /\ \/ ~r.pairing /\ InitGuideInitialized(r, TRUE)
             \/ InitGuidePaired(r)

Removed(p) == clients[p] # NoHandle /\ clients'[p] = NoHandle

\* A Disconnect for p was issued and awaits destroy()
DisconnectInProgress(p) ==
    \E h \in Handles : handles[h].profile = p /\ handles[h].destroys > 0

\* C3 (as stated): once Init has succeeded the registry maps the profile,
\* and the entry stays until a Disconnect for the profile has been issued,
\* whatever the collaborator emits.
C3_PresentUntilDisconnect ==
    [][\A p \in Profiles :
         /\ InitSucceeds(p) => clients'[p] # NoHandle
         /\ Removed(p) => DisconnectInProgress(p)]_vars

\* C3 (as amended): once Init has succeeded the registry maps the profile,
\* and the entry stays until a handle of the profile emits `disconnected`,
\* a Disconnect for the profile is running, or (guide) another Init for the
\* profile is tearing the old handle down; qr, code, ready and auth_failure
\* never remove it.
C3_PresentUntilDisconnected ==
    [][\A p \in Profiles :
         /\ InitSucceeds(p) => clients'[p] # NoHandle
         /\ Removed(p) =>
              \/ DisconnectInProgress(p)
              \/ \E h \in Handles : handles[h].profile = p /\ OnDisconnected(h)
              \/ \E r \in inits : r.profile = p /\ r.stage = "cleanup"]_vars

\* Init succeeded, the collaborator went on to `ready`, the entry is there.
C3_Witness ==
    \E p \in Profiles :
        /\ clients[p] # NoHandle
        /\ handles[clients[p]].st = "connected"
        /\ handles[clients[p]].init = "done"

\* --------------------------------------------------------------------- C4
\* A handle of p is still before `ready`: initializing or awaiting the scan
\* of a QR code, so the collaborator can emit `qr` for it
InitInProgress(p) ==
    \E h \in Handles : handles[h].profile = p /\ handles[h].st = "pending"

\* The step in which a Disconnect for p is answered
DisconnectAnswered(p) ==
    \/ clients[p] = NoHandle /\ (DisconnectService(p) \/ DisconnectGuide(p))
    \/ \E h \in Handles, ok \in BOOLEAN :
          handles[h].profile = p /\ DisconnectResumed(h, ok)

\* C4: a Disconnect issued while the profile's Init is in progress leaves,
\* once answered, no registry entry for the profile and no handle of it that
\* can still have a qr_updated forwarded.
C4_DisconnectCancelsInit ==
    [][\A p \in Profiles :
         (InitInProgress(p) /\ DisconnectAnswered(p))
         => (clients'[p] = NoHandle /\ ~InitInProgress(p)')]_vars

\* --------------------------------------------------------------------- C5
\* C5: whether destroy() succeeds or fails, when Disconnect finishes the
\* registry no longer maps the profile to the handle it tore down.
C5_RemovedWhateverDestroyDoes ==
    [][\A h \in Handles, ok \in BOOLEAN :
         DisconnectResumed(h, ok) => clients'[handles[h].profile] # h]_vars

\* --------------------------------------------------------------------- C6
\* C6: every Disconnect answers {success: true} and leaves the profile
\* without a registry entry, so that a second call finds nothing to do and
\* answers the same.
C6_DisconnectIdempotent ==
    [][\A p \in Profiles :
         DisconnectAnswered(p)
         => (resp' = [op |-> "disconnect", code |-> 200, status |-> "",
                      success |-> "true"]
               /\ clients'[p] = NoHandle)]_vars

\* --------------------------------------------------------------------- C7
\* C7: the POSTs of one profile reach the sink in the order in which the
\* events were produced.
C7_SinkInOrder ==
    \A i, j \in DOMAIN sink :
        (i < j /\ sink[i].profile = sink[j].profile) => sink[i].n < sink[j].n

\* --------------------------------------------------------------------- C8
\* C8: /send on a client that is not connected answers NotReady and never
\* calls the collaborator's sendMessage.
C8_SendNeedsReady ==
    /\ sender.atState \in {"none", "connected"}
    /\ (resp.op = "send" /\ sender.st # "connected")
          => resp.status = "Client not ready"

\* --------------------------------------------------------------------- C9
\* The step in which a POST is given up: fetch rejected
WebhookFails == \E i \in outbox : outbox' = outbox \ {i} /\ sink' = sink

\* C9: a failed delivery changes neither the registry nor a handle nor what
\* Status reports, and the rejection does not escape the handler.
C9_DeliveryFailureSwallowed ==
    [][WebhookFails
         => /\ UNCHANGED <<clients, handles>>
            /\ \A p \in Profiles : StatusConnected(p)' = StatusConnected(p)
            /\ ~unhandled']_vars

\* -------------------------------------------------------------------- C10
Initializing ==
    [op |-> "init", code |-> 200, status |-> "initializing",
     success |-> "true"]

\* Init answers `initializing` in the step that constructs the handle, with
\* initialize() still pending, and the step in which initialize() settles
\* sends no response.
InitAnswersBeforeOutcome ==
    /\ Len(handles') > Len(handles)
          => resp' = Initializing /\ handles'[Len(handles')].init = "pending"
    /\ \A h \in Handles :
          (handles[h].init = "pending" /\ handles'[h].init = "done")
          => resp' = resp

EventHandled(h) ==
    OnQr(h) \/ OnCode(h) \/ OnReady(h) \/ OnAuthFailure(h) \/ OnDisconnected(h)

\* The step issues exactly one POST, for the profile of h
OnePostIssued(h) ==
    /\ issued' = issued + 1
    /\ \E e \in {"qr_updated", "pairing_code", "connected", "auth_failure",
                  "disconnected"} :
          LET post == [n |-> issued', profile |-> handles[h].profile,
                       event |-> e]
          IN  post \notin outbox /\ outbox' = outbox \cup {post}

\* No POST reached the sink twice, none is both delivered and pending
NoDuplicateDelivery ==
    /\ \A i, j \in DOMAIN sink : i # j => sink[i].n # sink[j].n
    /\ \A i \in DOMAIN sink : \A o \in outbox : o.n # sink[i].n
    /\ Cardinality(outbox) + Len(sink) <= issued

\* C11: every occurrence of a lifecycle event issues exactly one POST to
\* the sink when WEBHOOK_URL is set and none when it is not; no other step
\* issues a POST, so a failed delivery is not retried, and no POST is
\* delivered twice.
C11_OneAttemptPerEvent ==
    [][/\ ~webhookUrl => (issued' = issued /\ outbox' = outbox)
       /\ (webhookUrl /\ (handles' # handles \/ clients' # clients))
            => \A h \in Handles : EventHandled(h) => OnePostIssued(h)
       /\ (issued' # issued \/ ~(outbox' \subseteq outbox))
            => \E h \in Handles : EventHandled(h) /\ OnePostIssued(h)
       /\ (outbox' # outbox \/ sink' # sink) => NoDuplicateDelivery']_vars

\* One Init, one `ready`: the `connected` notification was posted once and
\* has reached the sink.
C11_Witness ==
    /\ webhookUrl
    /\ Len(handles) = 1
    /\ handles[1].st = "connected"
    /\ issued = 1
    /\ outbox = {}
    /\ sink = <<[n |-> 1, profile |-> handles[1].profile,
                 event |-> "connected"]>>

\* -------------------------------------------------------------------- C12
\* The collaborator's events for handle h can be handled now, and the
\* handler of `disconnected` removes the registry entry
EventsHandled(h) ==
    /\ handles[h].st = "pending"
         => /\ ENABLED OnQr(h)
            /\ ENABLED OnReady(h)
            /\ ENABLED OnAuthFailure(h)
            /\ variant = "service" => ENABLED OnCode(h)
    /\ handles[h].st # "closed"
         => ENABLED (OnDisconnected(h) /\ clients'[handles[h].profile] = NoHandle)
    /\ handles[h].destroys > 0 => ENABLED DisconnectResumed(h, TRUE)

\* Init, Disconnect and Status for p are served now.  (A guide Init for a
\* profile without an entry takes two units of the run's size.)
RequestsServed(p) ==
    /\ variant = "service"
         => /\ ENABLED InitService(p, "u1", FALSE)
            /\ ENABLED DisconnectService(p)
            /\ ENABLED StatusService(p)
    /\ variant = "guide"
         => /\ (clients[p] # NoHandle \/ Load + 1 < MaxLoad)
                  => ENABLED InitGuide(p, "u1", FALSE)
            /\ ENABLED DisconnectGuide(p)
            /\ ENABLED StatusGuide(p, TRUE)
    /\ ENABLED Health

InitMissingArgument ==
    \E p \in Profiles \cup {Missing}, u \in Users \cup {Missing},
       b \in BOOLEAN :
        /\ p = Missing \/ u = Missing
        /\ InitService(p, u, b) \/ InitGuide(p, u, b)

\* No handle constructed, stored, initialized or torn down
RegistryUntouched == UNCHANGED <<clients, handles, inits, issued, outbox>>

Dispatches(number) == \E ok \in BOOLEAN : Send(number, TRUE, ok)

\* C14: the recipient /send dispatches to is normalize(number), normalizing
\* it again changes nothing, and a number that already contains "@c.us" is
\* dispatched as it is.
C14_NormalizeIdempotent ==
    [][sender' # sender
       => \A number \in Recipients :
         Dispatches(number)
         => /\ sender'.dispatched = FormatNumber(number)
            /\ FormatNumber(sender'.dispatched) = sender'.dispatched
            /\ FormatNumber(FormatNumber(number)) = FormatNumber(number)
            /\ Includes(number, Suffix) => sender'.dispatched = number]_vars

\* A message went out to a number that came with the suffix in the middle.
C14_Witness ==
    /\ variant = "sender"
    /\ sender.dispatched = Suffix \o <<"1">>

\* -------------------------------------------------------------------- C15
\* The step in which Status for p is answered
StatusAnswered(p) == StatusService(p) \/ \E ok \in BOOLEAN : StatusGuide(p, ok)

\* C15: Status changes neither the registry nor a handle and answers
\* connected = true exactly when the registry maps the profile; the count
\* Health answers is the number of profiles Status answers connected = true
\* for.
C15_StatusPureRead ==
    [][/\ \A p \in Profiles :
            StatusAnswered(p)
            => /\ UNCHANGED <<clients, handles, inits, issued, outbox, sink>>
               /\ resp'.op = "status"
               /\ resp'.connected = (clients[p] # NoHandle)
       /\ Health
            => /\ UNCHANGED <<clients, handles, inits, issued, outbox, sink>>
               /\ resp'.activeClients =
                     Cardinality({p \in Profiles : StatusBody(p).connected})]_vars

\* Status answered connected = true for a profile whose handle failed to
\* authenticate, next to a handle that is gone from the registry.
C15_Witness ==
    /\ resp.op = "status"
    /\ resp.connected
    /\ \E p \in Profiles :
          clients[p] # NoHandle /\ handles[clients[p]].st = "auth_failed"
    /\ \E h \in Handles : clients[handles[h].profile] # h

\* -------------------------------------------------------------------- C16
\* C16: every handle that was created and has neither been destroyed nor
\* emitted `disconnected` is the handle the registry maps its profile to; a
\* Disconnect that resumes after destroy() removes no handle but the one it
\* destroyed.
C16_NoOrphanedLiveHandle ==
    \A h \in Handles : Live(h) => clients[handles[h].profile] = h

\* -------------------------------------------------------------------- C17
\* The registry maps p to a handle that failed to authenticate
AuthFailedEntry(p) ==
    clients[p] # NoHandle /\ handles[clients[p]].st = "auth_failed"

\* The handler of `auth_failure` leaves the registry as it is, and while the
\* registry maps p to a handle that failed to authenticate Status answers
\* connected = true
KeptAfterAuthFailure(p) ==
    /\ (\E h \in Handles : handles[h].profile = p /\ OnAuthFailure(h))
         => clients' = clients
    /\ (AuthFailedEntry(p) /\ StatusAnswered(p)) => resp'.connected

\* The steps that take the entry of p away on behalf of `disconnected` or
\* of Disconnect
RemovedByDisconnect(p) ==
    \E h \in Handles :
        /\ handles[h].profile = p
        /\ OnDisconnected(h) \/ DisconnectResumed(h, TRUE)

\* C17 (as stated): an `auth_failure` does not remove the entry; while the
\* entry of a handle that failed to authenticate is there, Status answers
\* connected = true and every Init answers `existing` and constructs
\* nothing; only `disconnected` and Disconnect ever remove an entry.
C17_AuthFailureKeepsEntry ==
    [][\A p \in Profiles :
         /\ KeptAfterAuthFailure(p)
         /\ (AuthFailedEntry(p)
               /\ \E u \in Users, b \in BOOLEAN :
                     InitService(p, u, b) \/ InitGuide(p, u, b))
              => (resp' = Existing /\ UNCHANGED <<clients, handles, inits>>)
         /\ Removed(p) => RemovedByDisconnect(p)]_vars

\* C17 (as amended): the same, except that Init answers `existing` in the
\* service of part_000 only, and that in the guide an entry is also removed
\* by an Init for the profile, which tears the old handle down.
C17_AuthFailureKeepsEntryService ==
    [][\A p \in Profiles :
         /\ KeptAfterAuthFailure(p)
         /\ (AuthFailedEntry(p)
               /\ \E u \in Users, b \in BOOLEAN : InitService(p, u, b))
              => (resp' = Existing /\ UNCHANGED <<clients, handles, inits>>)
         /\ Removed(p)
              => \/ RemovedByDisconnect(p)
                 \/ \E r \in inits : r.profile = p /\ InitGuideCleaned(r, TRUE)]_vars

\* After an auth_failure the entry is still there and an Init was answered
\* `existing`.
C17_Witness ==
    /\ variant = "service"
    /\ resp = Existing
    /\ \E p \in Profiles : AuthFailedEntry(p)
====
